---- MODULE Spec2Model ----
(***************************************************************************)
(* rowmetrics: a batch job that samples per-table counters from a list of *)
(* databases, diffs them against the counts written by the previous run,  *)
(* publishes the differences as CloudWatch metrics and overwrites the     *)
(* counts file (src/main.go).                                              *)
(*                                                                         *)
(* Strings that end up in the counts file (database names, table names)   *)
(* are sequences of one-character strings, so that the text-level steps   *)
(* of writeCountCollections (yaml.Marshal, then fmt.Fprintf with the YAML *)
(* as the format string) and of loadCountCollections (yaml.Unmarshal) are *)
(* computed on characters.  Counts are Go ints; every count of the model  *)
(* is far inside the 64-bit range, where Go's subtraction is the          *)
(* mathematical one.                                                       *)
(***************************************************************************)
EXTENDS Integers, Sequences, FiniteSets, TLC

VARIABLES
    pc,           \* position of the current run in main()
    config,       \* applicationConfig of the current run
    dbIdx,        \* index of the next database of config.Databases to collect
    file,         \* the counts file at config.CountPath
    cur,          \* curCountCollections
    last,         \* lastCountCollections
    diff,         \* diffCountCollections
    published,    \* PutMetricData calls of the current run
    log,          \* log lines of the current run
    exitStatus,   \* process exit status of the current run
    hist,         \* history: what earlier steps of this and the previous run did
    call          \* a single call of one function (the function-level specifications)

vars == <<pc, config, dbIdx, file, cur, last, diff, published, log, exitStatus, hist, call>>

runVars == <<pc, config, dbIdx, file, cur, last, diff, published, log, exitStatus, hist>>

(***************************************************************************)
(* Bounds of the model.                                                    *)
(***************************************************************************)
\* the largest counter value a database reports
MaxCount == 1

Counts == 0..MaxCount

\* an empty Go map
EmptyMap == <<>>

----------------------------------------------------------------------------
(***************************************************************************)
(* Names.                                                                  *)
(***************************************************************************)
TblA == <<"a">>

TblB == <<"b">>

\* a legal MySQL/PostgreSQL table name holding a per cent sign
TblPct == <<"a", "%", "d">>

\* a name that starts with a per cent sign (YAML quotes it)
TblLead == <<"%", "d">>

\* a name holding a doubled per cent sign
TblDbl == <<"a", "%", "%">>

NameM == <<"m">>

NameP == <<"p">>

NamePct == <<"x", "%", "s">>

----------------------------------------------------------------------------
(***************************************************************************)
(* getCountCollectionDifference                                            *)
(***************************************************************************)
\* mutant: a negative difference is clamped to 0
DiffCountsClamped(minCounts, subCounts) ==
    [k \in DOMAIN minCounts |->
        IF k \in DOMAIN subCounts
        THEN (IF minCounts[k] < subCounts[k] THEN 0 ELSE minCounts[k] - subCounts[k])
        ELSE 0]

\* mutant: a key the subtrahend lacks reports the whole count
DiffCountsFullNew(minCounts, subCounts) ==
    [k \in DOMAIN minCounts |->
        IF k \in DOMAIN subCounts THEN minCounts[k] - subCounts[k] ELSE minCounts[k]]

\* one of the two loops of getCountCollectionDifference: range over the minuend's
\* map, subtract when the subtrahend has the key, else 0
DiffCounts(minCounts, subCounts) ==
    [k \in DOMAIN minCounts |->
        IF k \in DOMAIN subCounts THEN minCounts[k] - subCounts[k] ELSE 0]

getCountCollectionDifference(minuend, subtrahend) ==
    [Increment |-> DiffCounts(minuend.Increment, subtrahend.Increment),
     Row       |-> DiffCounts(minuend.Row, subtrahend.Row)]

----------------------------------------------------------------------------
(***************************************************************************)
(* The counts file: yaml.Marshal, fmt.Fprintf, yaml.Unmarshal.             *)
(***************************************************************************)
DigitChars == <<"0", "1", "2", "3", "4", "5", "6", "7", "8", "9">>

RECURSIVE FormatNat(_)
\* decimal digits of a natural number
FormatNat(n) ==
    IF n < 10 THEN <<DigitChars[n + 1]>>
    ELSE FormatNat(n \div 10) \o <<DigitChars[(n % 10) + 1]>>

\* yaml.Marshal of an int
FormatInt(n) == IF n < 0 THEN <<"-">> \o FormatNat(0 - n) ELSE FormatNat(n)

DigitValue(c) == CHOOSE d \in 0..9 : DigitChars[d + 1] = c

IsDigit(c) == \E d \in 0..9 : DigitChars[d + 1] = c

RECURSIVE ParseNat(_)
ParseNat(s) ==
    IF Len(s) = 1 THEN DigitValue(s[1])
    ELSE 10 * ParseNat(SubSeq(s, 1, Len(s) - 1)) + DigitValue(s[Len(s)])

\* yaml.Unmarshal of a scalar into an int: [ok, val]
ParseInt(s) ==
    LET neg  == Len(s) >= 1 /\ s[1] = "-"
        body == IF neg THEN Tail(s) ELSE s
    IN  IF Len(body) >= 1 /\ \A i \in 1..Len(body) : IsDigit(body[i])
        THEN [ok |-> TRUE, val |-> IF neg THEN 0 - ParseNat(body) ELSE ParseNat(body)]
        ELSE [ok |-> FALSE, val |-> 0]

\* yaml.Marshal of a string scalar: a plain scalar, single-quoted when it is empty
\* or starts with an indicator character
EmitScalar(s) ==
    IF s = <<>> \/ s[1] = "%" THEN <<"'">> \o s \o <<"'">> ELSE s

\* yaml.Marshal of a mapping key: the scalar and its colon
EmitKey(s) == EmitScalar(s) \o <<":">>

RECURSIVE Fprintf(_)
\* fmt.Fprintf(file, format) with no operands: text is copied up to a per cent
\* sign; "%%" writes one per cent sign; "%" and a verb character c write
\* "%!c(MISSING)"; a per cent sign that ends the format writes "%!(NOVERB)".
\* The names of the model hold letters and per cent signs, so no flag or width
\* character stands between a per cent sign and its verb.
Fprintf(format) ==
    IF format = <<>> THEN <<>>
    ELSE IF Head(format) # "%" THEN <<Head(format)>> \o Fprintf(Tail(format))
    ELSE IF Len(format) = 1 THEN <<"%", "!", "(NOVERB)">>
    ELSE IF format[2] = "%" THEN <<"%">> \o Fprintf(SubSeq(format, 3, Len(format)))
    ELSE <<"%", "!", format[2], "(MISSING)">> \o Fprintf(SubSeq(format, 3, Len(format)))

\* yaml.Marshal of one map[string]int as its lines: key text and value text
MarshalCounts(counts) ==
    {[key |-> EmitKey(k), val |-> FormatInt(counts[k])] : k \in DOMAIN counts}

\* yaml.Marshal(&countCollections): one block per database, keys "increment" and
\* "row" (the lower-cased field names), each a block of "table: count" lines
yamlMarshal(countCollections) ==
    {[key       |-> EmitKey(id),
      increment |-> MarshalCounts(countCollections[id].Increment),
      row       |-> MarshalCounts(countCollections[id].Row)] : id \in DOMAIN countCollections}

\* Fprintf over the lines of one counts block
FprintfCounts(lines) == {[key |-> Fprintf(l.key), val |-> Fprintf(l.val)] : l \in lines}

\* Fprintf over the whole document.  A per cent sign occurs only inside a key, and
\* the verb it takes is the next character of the same key or the key's colon, so
\* formatting the document is formatting each key (with its colon) and each value.
FprintfDocument(doc) ==
    {[key       |-> Fprintf(b.key),
      increment |-> FprintfCounts(b.increment),
      row       |-> FprintfCounts(b.row)] : b \in doc}

\* yaml.Unmarshal of a mapping key line: [ok, key].  The line must end with the
\* colon; a quoted key must close its quote right before the colon; a plain key
\* is the text before the colon.
ParseKey(line) ==
    LET bad  == [ok |-> FALSE, key |-> <<>>]
        body == SubSeq(line, 1, Len(line) - 1)
    IN  IF Len(line) < 2 \/ line[Len(line)] # ":" THEN bad
        ELSE IF body[1] = "'"
             THEN IF /\ Len(body) >= 2
                     /\ body[Len(body)] = "'"
                     /\ \A i \in 2..(Len(body) - 1) : body[i] # "'"
                  THEN [ok |-> TRUE, key |-> SubSeq(body, 2, Len(body) - 1)]
                  ELSE bad
             ELSE [ok |-> TRUE, key |-> body]

CountsParse(lines) == \A l \in lines : ParseKey(l.key).ok /\ ParseInt(l.val).ok

\* yaml.Unmarshal into a map[string]int (a key written twice keeps one value)
UnmarshalCounts(lines) ==
    [k \in {ParseKey(l.key).key : l \in lines} |->
        ParseInt((CHOOSE l \in lines : ParseKey(l.key).key = k).val).val]

DocumentParses(doc) ==
    \A b \in doc : ParseKey(b.key).ok /\ CountsParse(b.increment) /\ CountsParse(b.row)

\* yaml.Unmarshal(source, &countCollections) of a document that parses
yamlUnmarshal(doc) ==
    [id \in {ParseKey(b.key).key : b \in doc} |->
        LET b == CHOOSE x \in doc : ParseKey(x.key).key = id
        IN  [Increment |-> UnmarshalCounts(b.increment), Row |-> UnmarshalCounts(b.row)]]

\* the counts file: absent, present but unreadable (ioutil.ReadFile fails), or text
NoFile == [state |-> "absent", doc |-> {}]

UnreadableFile == [state |-> "unreadable", doc |-> {}]

TextFile(doc) == [state |-> "text", doc |-> doc]

\* text that is not a YAML mapping of the counts shape
GarbageFile == TextFile({[key |-> <<"?">>, increment |-> {}, row |-> {}]})

\* writeCountCollections once os.Create succeeded: the file is truncated and holds
\* what Fprintf wrote for the marshalled YAML
WrittenFile(old, countCollections) ==
    TextFile(FprintfDocument(yamlMarshal(countCollections)))

\* writeCountCollections(fileName, countCollections): [err, file]; os.Create may
\* fail (createFails), and then the file is as it was
writeCountCollections(old, countCollections, createFails) ==
    IF createFails THEN [err |-> TRUE, file |-> old]
    ELSE [err |-> FALSE, file |-> WrittenFile(old, countCollections)]

\* loadCountCollections(fileName): [err, countCollections]
loadCountCollections(f) ==
    IF f.state # "text" THEN [err |-> TRUE, countCollections |-> EmptyMap]
    ELSE IF ~DocumentParses(f.doc) THEN [err |-> TRUE, countCollections |-> EmptyMap]
    ELSE [err |-> FALSE, countCollections |-> yamlUnmarshal(f.doc)]

----------------------------------------------------------------------------
(***************************************************************************)
(* getCountCollection: DSN and schema defaults, the two queries, the scan  *)
(* loops.                                                                  *)
(***************************************************************************)
\* the database/sql drivers the program registers (its blank imports)
KnownDrivers == {"mysql", "postgres"}

\* dbType: the configured type, "mysql" when none is configured
dbTypeOf(dbConfig) == IF dbConfig.Type = "" THEN "mysql" ELSE dbConfig.Type

\* dbSchema: the configured schema, else the dialect's default
dbSchemaOf(dbConfig) ==
    IF dbConfig.Schema = <<>>
    THEN IF dbTypeOf(dbConfig) = "mysql" THEN dbConfig.Database
         ELSE IF dbTypeOf(dbConfig) = "postgres" THEN <<"p", "u", "b", "l", "i", "c">>
         ELSE dbConfig.Name
    ELSE dbConfig.Schema

\* the DSN format handed to sql.Open
dsnOf(dbConfig) ==
    IF dbTypeOf(dbConfig) = "postgres" THEN "postgres://%s:%s@%s/%s" ELSE "%s:%s@tcp(%s)/%s"

\* sql.Open(dbType, dsn) fails for a driver that is not registered, and may fail
\* for a DSN the driver rejects (dsnRejected)
sqlOpenFails(dbConfig, dsnRejected) ==
    dbTypeOf(dbConfig) \notin KnownDrivers \/ dsnRejected

NoQuery == [sql |-> "", bindvar |-> "QUESTION", args |-> <<>>]

\* sqlx.In(sql, tables, schema): "IN (?)" takes one bindvar per table, and the
\* arguments are the tables followed by the schema
sqlxIn(sql, tables, schema) == [sql |-> sql, bindvar |-> "QUESTION", args |-> tables \o <<schema>>]

\* sqlx.Rebind(sqlx.DOLLAR, query): the bindvars ?, ?, ... become $1, $2, ...
sqlxRebindDollar(query) == [query EXCEPT !.bindvar = "DOLLAR"]

\* the SQL of the "mysql" branch; the source quotes TABLE_NAME, AUTO_INCREMENT and
\* TABLE_ROWS with backquotes here, written [..] in the model
MysqlQuotedIncrementQuery == "SELECT [TABLE_NAME], [AUTO_INCREMENT] FROM information_schema.TABLES WHERE TABLE_NAME IN (?) AND TABLE_SCHEMA = ?"

MysqlQuotedRowQuery == "SELECT [TABLE_NAME], [TABLE_ROWS] FROM information_schema.TABLES WHERE TABLE_NAME IN (?) AND TABLE_SCHEMA = ?"

\* the SQL of the default branch
MysqlIncrementQuery == "SELECT TABLE_NAME,AUTO_INCREMENT FROM information_schema.TABLES WHERE TABLE_NAME IN (?) AND TABLE_SCHEMA = ?"

MysqlRowQuery == "SELECT TABLE_NAME,TABLE_ROWS FROM information_schema.TABLES WHERE TABLE_NAME IN (?) AND TABLE_SCHEMA = ?"

\* the SQL of the "postgres" branch, increment and row alike
PgStatQuery == "SELECT relname,n_live_tup FROM pg_stat_user_tables WHERE relname IN (?) AND schemaname = ?"

\* the PostgreSQL branch, increment tables
PostgresIncrementQuery(dbConfig) ==
    IF Len(dbConfig.Tables.Increment) > 0
    THEN sqlxRebindDollar(sqlxIn(PgStatQuery, dbConfig.Tables.Increment, dbSchemaOf(dbConfig)))
    ELSE NoQuery

\* the PostgreSQL branch, row tables
PostgresRowQuery(dbConfig) ==
    IF Len(dbConfig.Tables.Row) > 0
    THEN sqlxRebindDollar(sqlxIn(PgStatQuery, dbConfig.Tables.Row, dbSchemaOf(dbConfig)))
    ELSE NoQuery

\* incrementQuery, incrementArgs of getCountCollection; the branch is taken on
\* dbConfig.Type, not on the defaulted dbType
incrementQueryOf(dbConfig) ==
    IF dbConfig.Type = "mysql"
    THEN IF Len(dbConfig.Tables.Increment) > 0
         THEN sqlxIn(MysqlQuotedIncrementQuery,
                     dbConfig.Tables.Increment, dbSchemaOf(dbConfig))
         ELSE NoQuery
    ELSE IF dbConfig.Type = "postgres" THEN PostgresIncrementQuery(dbConfig)
    ELSE IF Len(dbConfig.Tables.Increment) > 0
         THEN sqlxIn(MysqlIncrementQuery,
                     dbConfig.Tables.Increment, dbSchemaOf(dbConfig))
         ELSE NoQuery

\* rowQuery, rowArgs of getCountCollection
rowQueryOf(dbConfig) ==
    IF dbConfig.Type = "mysql"
    THEN IF Len(dbConfig.Tables.Row) > 0
         THEN sqlxIn(MysqlQuotedRowQuery,
                     dbConfig.Tables.Row, dbSchemaOf(dbConfig))
         ELSE NoQuery
    ELSE IF dbConfig.Type = "postgres" THEN PostgresRowQuery(dbConfig)
    ELSE IF Len(dbConfig.Tables.Row) > 0
         THEN sqlxIn(MysqlRowQuery,
                     dbConfig.Tables.Row, dbSchemaOf(dbConfig))
         ELSE NoQuery

\* the log lines getCountCollection writes while it builds the queries: sqlx.In
\* does not fail for a non-empty table list, so none
buildLogOf(dbConfig) == {}

\* the guard of each query: the query text is set and it has arguments
queryRuns(query) == query.sql # "" /\ Len(query.args) > 0

SeqRange(s) == {s[i] : i \in 1..Len(s)}

\* What the database answers for one requested table: no row, a row whose count
\* does not scan into an int (NULL), or a row with a count.
TableAnswers ==
    {[present |-> FALSE, scans |-> FALSE, value |-> 0],
     [present |-> TRUE, scans |-> FALSE, value |-> 0]}
    \cup {[present |-> TRUE, scans |-> TRUE, value |-> v] : v \in Counts}

\* What db.Query answers: an error (the connection or the statement failed) or
\* the rows of the requested tables.
QueryAnswers(tables) ==
    {[err |-> TRUE, rows |-> {}]}
    \cup {[err |-> FALSE,
           rows |-> {[name |-> t, scans |-> f[t].scans, value |-> f[t].value] :
                        t \in {x \in SeqRange(tables) : f[x].present}}] :
            f \in [SeqRange(tables) -> TableAnswers]}

\* What the environment decides for one call of getCountCollection.
CollectAnswers(dbConfig) ==
    [dsnRejected : BOOLEAN,
     increment   : QueryAnswers(dbConfig.Tables.Increment),
     row         : QueryAnswers(dbConfig.Tables.Row)]

\* mutant: a row that fails to scan ends the loop's result
ScanRowsAllOrNothing(rows) ==
    IF \E r \in rows : ~r.scans THEN EmptyMap
    ELSE [t \in {r.name : r \in rows} |-> (CHOOSE r \in rows : r.name = t).value]

\* the rows.Next() loop: a row that scans sets its table's count, a row that does
\* not is logged and left out
ScanRows(rows) ==
    [t \in {r.name : r \in {x \in rows : x.scans}} |->
        (CHOOSE r \in rows : r.name = t /\ r.scans).value]

\* one query block of getCountCollection: [counts, log, executed]
runQuery(dbConfig, query, answer) ==
    IF ~queryRuns(query) THEN [counts |-> EmptyMap, log |-> {}, executed |-> {}]
    ELSE IF answer.err
    THEN [counts |-> EmptyMap,
          log |-> {[level |-> "ERROR", msg |-> "Failed to query database", db |-> dbConfig.Name]},
          executed |-> {query}]
    ELSE [counts |-> ScanRows(answer.rows),
          log |-> {[level |-> "ERROR", msg |-> "Failed to obtain values", db |-> dbConfig.Name] :
                      r \in {x \in answer.rows : ~x.scans}}
                  \cup {[level |-> "INFO", msg |-> "Obtained value", db |-> dbConfig.Name] :
                      r \in {x \in answer.rows : x.scans}},
          executed |-> {query}]

\* getCountCollection(dbConfig): [countCollection, err, log, executed]
getCountCollection(dbConfig, answers) ==
    IF sqlOpenFails(dbConfig, answers.dsnRejected)
    THEN [countCollection |-> [Increment |-> EmptyMap, Row |-> EmptyMap],
          err |-> TRUE, log |-> {}, executed |-> {}]
    ELSE LET inc == runQuery(dbConfig, incrementQueryOf(dbConfig), answers.increment)
             row == runQuery(dbConfig, rowQueryOf(dbConfig), answers.row)
         IN  [countCollection |-> [Increment |-> inc.counts, Row |-> row.counts],
              err |-> FALSE,
              log |-> buildLogOf(dbConfig) \cup inc.log \cup row.log,
              executed |-> inc.executed \cup row.executed]

----------------------------------------------------------------------------
(***************************************************************************)
(* putAWSCountCollectionMetrics                                            *)
(***************************************************************************)
\* config.AwsConfig is a map[string]string; a key the map lacks reads as "".
\* The map is nil when the config YAML has no "aws" section.
AwsNil == [isNil |-> TRUE, namespace |-> "", region |-> "", accessKeyId |-> "", secretAccessKey |-> ""]

AwsExplicit ==
    [isNil |-> FALSE, namespace |-> "", region |-> "us-east-1",
     accessKeyId |-> "AKID", secretAccessKey |-> "SECRET"]

AwsNamespaceOnly ==
    [isNil |-> FALSE, namespace |-> "Custom", region |-> "", accessKeyId |-> "", secretAccessKey |-> ""]

\* namespace: "RowMetrics" unless the config names one
namespaceOf(awsConfig) ==
    IF awsConfig.namespace = "" THEN "RowMetrics" ELSE awsConfig.namespace

\* the credentials the session is opened with: the default provider chain when
\* awsConfig is nil, else static credentials from the map
credentialsOf(awsConfig) ==
    IF awsConfig.isNil
    THEN [provider |-> "default-chain", accessKeyId |-> "", secretAccessKey |-> ""]
    ELSE [provider |-> "static", accessKeyId |-> awsConfig.accessKeyId,
          secretAccessKey |-> awsConfig.secretAccessKey]

\* awsSession.Config.Credentials.Get(): static credentials fail when the key id or
\* the secret is empty; the default chain fails when the environment offers none
credentialsGetFails(credentials, ambientMissing) ==
    IF credentials.provider = "static"
    THEN credentials.accessKeyId = "" \/ credentials.secretAccessKey = ""
    ELSE ambientMissing

\* the data of the PutMetricData calls of one loop over one map
PointsOf(id, kind, counts) ==
    {[db |-> id, kind |-> kind, name |-> t, value |-> counts[t]] : t \in DOMAIN counts}

\* the data of every PutMetricData call: both loops, every countCollection
MetricPoints(countCollections) ==
    UNION {PointsOf(id, "Increment", countCollections[id].Increment)
           \cup PointsOf(id, "Row", countCollections[id].Row) : id \in DOMAIN countCollections}

\* What the environment decides for one call of putAWSCountCollectionMetrics:
\* whether session.NewSession fails, whether the default chain finds no
\* credentials, and which PutMetricData calls fail.
PublishAnswers(countCollections) ==
    [sessionFails : BOOLEAN, ambientMissing : BOOLEAN,
     failing : SUBSET MetricPoints(countCollections)]

\* the log line of one PutMetricData call: a failed increment put logs WARN, a
\* failed row put logs ERROR, a put that went through logs INFO
putLogOf(point, failed) ==
    [level |-> IF ~failed THEN "INFO" ELSE IF point.kind = "Increment" THEN "WARN" ELSE "ERROR",
     msg   |-> IF failed THEN "Failed to push Cloudwatch metric" ELSE "Pushed Cloudwatch metric",
     db    |-> point.db]

\* mutant: the first failed put ends the publishing: no put is made after it
putsStoppingAtFailure(countCollections, awsConfig, failing) ==
    IF failing = {} 
    THEN {[point |-> p, namespace |-> namespaceOf(awsConfig), ok |-> TRUE] :
             p \in MetricPoints(countCollections)}
    ELSE {[point |-> p, namespace |-> namespaceOf(awsConfig), ok |-> FALSE] : p \in failing}

\* the PutMetricData calls of the two loops: one per point, whatever the others did
putsOf(countCollections, awsConfig, failing) ==
    {[point |-> p, namespace |-> namespaceOf(awsConfig), ok |-> p \notin failing] :
        p \in MetricPoints(countCollections)}

\* putAWSCountCollectionMetrics(countCollections, awsConfig): [err, puts, log, credentials]
putAWSCountCollectionMetrics(countCollections, awsConfig, answers) ==
    IF answers.sessionFails
    THEN [err |-> TRUE, puts |-> {}, log |-> {}, credentials |-> credentialsOf(awsConfig)]
    ELSE IF credentialsGetFails(credentialsOf(awsConfig), answers.ambientMissing)
    THEN [err |-> TRUE, puts |-> {}, log |-> {}, credentials |-> credentialsOf(awsConfig)]
    ELSE [err |-> FALSE,
          puts |-> putsOf(countCollections, awsConfig, answers.failing),
          log |-> {putLogOf(p, p \in answers.failing) : p \in MetricPoints(countCollections)},
          credentials |-> credentialsOf(awsConfig)]

----------------------------------------------------------------------------
(***************************************************************************)
(* main: one run of the job, and the next run after it.                    *)
(***************************************************************************)
\* configured databases
DbM ==
    [Name |-> NameM, Type |-> "mysql", Database |-> <<"d", "b">>, Schema |-> <<>>,
     Tables |-> [Increment |-> <<TblA>>, Row |-> <<TblPct>>]]

DbP ==
    [Name |-> NameP, Type |-> "postgres", Database |-> <<"d", "b">>, Schema |-> <<>>,
     Tables |-> [Increment |-> <<>>, Row |-> <<TblA>>]]

\* the configurations a run may be started with
ConfigPool ==
    {[AwsConfig |-> AwsNil, Databases |-> <<DbM>>],
     [AwsConfig |-> AwsExplicit, Databases |-> <<DbP>>],
     [AwsConfig |-> AwsNil, Databases |-> <<DbM, DbP>>]}

NoConfig == [AwsConfig |-> AwsNil, Databases |-> <<>>]

\* m[k] = v on a Go map
MapPut(m, k, v) == [x \in (DOMAIN m) \cup {k} |-> IF x = k THEN v ELSE m[x]]

\* mutant: a database whose getCountCollection fails is skipped and the run goes on
afterGetCountCollectionSkipping(curCountCollections, database, result) ==
    IF result.err
    THEN [panic |-> FALSE, cur |-> curCountCollections]
    ELSE [panic |-> FALSE, cur |-> MapPut(curCountCollections, database.Name, result.countCollection)]

\* the body of the collection loop after the call: log.Panicf on an error, else
\* curCountCollections[database.Name] = curCountCollection
afterGetCountCollection(curCountCollections, database, result) ==
    IF result.err
    THEN [panic |-> TRUE, cur |-> curCountCollections]
    ELSE [panic |-> FALSE, cur |-> MapPut(curCountCollections, database.Name, result.countCollection)]

\* if _, err := os.Stat(config.CountPath); os.IsNotExist(err)
afterStat(f) == IF f.state = "absent" THEN "firstwrite" ELSE "load"

\* mutant: a load error is taken for a first run
afterLoadAsFirstRun(loaded) == IF loaded.err THEN "firstwrite" ELSE "diff"

\* after loadCountCollections: log.Panicf on an error
afterLoad(loaded) == IF loaded.err THEN "panic" ELSE "diff"

\* mutant: a database the last session lacks is diffed against an empty countCollection
diffCountCollectionsEmptyBaseline(curCountCollections, lastCountCollections) ==
    [id \in DOMAIN curCountCollections |->
        getCountCollectionDifference(curCountCollections[id],
            IF id \in DOMAIN lastCountCollections THEN lastCountCollections[id]
            ELSE [Increment |-> EmptyMap, Row |-> EmptyMap])]

\* the loop that fills diffCountCollections: a database of this session that the
\* last session has is diffed, any other is passed over
diffCountCollectionsOf(curCountCollections, lastCountCollections) ==
    [id \in (DOMAIN curCountCollections) \cap (DOMAIN lastCountCollections) |->
        getCountCollectionDifference(curCountCollections[id], lastCountCollections[id])]

\* mutant: a publish error ends the run before the counts are saved
afterPublishAborting(err) == IF err THEN "panic" ELSE "save"

\* after putAWSCountCollectionMetrics: an error is logged and the run goes on
afterPublish(err) == "save"

\* the log line main writes for a publish error
publishLogOf(err) ==
    IF err THEN {[level |-> "ERROR", msg |-> "Failed to push Cloudwatch metrics", db |-> <<>>]} ELSE {}

\* what each run starts with
NoHist ==
    [fileAtStart |-> NoFile, openFailed |-> {}, queryFailed |-> {}, loadCalled |-> FALSE,
     diffCalled |-> FALSE, publishCalled |-> FALSE, publishErr |-> FALSE,
     writeCalled |-> FALSE, writeErr |-> FALSE,
     hasWritten |-> FALSE, written |-> EmptyMap]

NoCall == [op |-> "none"]

RunInit(f, h) ==
    /\ pc = "start"
    /\ config = NoConfig
    /\ dbIdx = 1
    /\ file = f
    /\ cur = EmptyMap
    /\ last = EmptyMap
    /\ diff = EmptyMap
    /\ published = {}
    /\ log = {}
    /\ exitStatus = -1
    /\ hist = h

\* a counts file the program did not write: none, one that cannot be read, one
\* that is not YAML of the counts shape
Init ==
    /\ \E f \in {NoFile, UnreadableFile, GarbageFile} :
          RunInit(f, [NoHist EXCEPT !.fileAtStart = f])
    /\ call = NoCall

\* log.Panicf: the process ends with status 2 and nothing more is done
Panic ==
    /\ pc' = "exited"
    /\ exitStatus' = 2

\* loadApplicationConfig: the config is read, or the run panics
LoadConfig ==
    /\ pc = "start"
    /\ \E c \in ConfigPool, configFails \in BOOLEAN :
          IF configFails
          THEN Panic /\ UNCHANGED config
          ELSE /\ config' = c
               /\ pc' = "collect"
               /\ UNCHANGED exitStatus
    /\ UNCHANGED <<dbIdx, file, cur, last, diff, published, log, hist, call>>

\* one pass of the loop over config.Databases
Collect ==
    /\ pc = "collect"
    /\ dbIdx <= Len(config.Databases)
    /\ LET database == config.Databases[dbIdx] IN
       \E answers \in CollectAnswers(database) :
          LET result == getCountCollection(database, answers)
              after  == afterGetCountCollection(cur, database, result)
          IN  /\ cur' = after.cur
              /\ log' = log \cup result.log
              /\ hist' = [hist EXCEPT
                     !.openFailed = IF result.err THEN @ \cup {database.Name} ELSE @,
                     !.queryFailed =
                        IF \E l \in result.log : l.msg = "Failed to query database"
                        THEN @ \cup {database.Name} ELSE @]
              /\ IF after.panic THEN Panic /\ UNCHANGED dbIdx
                 ELSE dbIdx' = dbIdx + 1 /\ UNCHANGED <<pc, exitStatus>>
    /\ UNCHANGED <<config, file, last, diff, published, call>>

\* os.Stat(config.CountPath) once every database is collected
Stat ==
    /\ pc = "collect"
    /\ dbIdx > Len(config.Databases)
    /\ pc' = afterStat(file)
    /\ UNCHANGED <<config, dbIdx, file, cur, last, diff, published, log, exitStatus, hist, call>>

\* the first-run branch: writeCountCollections(config.CountPath, curCountCollections)
FirstRunWrite ==
    /\ pc = "firstwrite"
    /\ \E createFails \in BOOLEAN :
          LET w == writeCountCollections(file, cur, createFails) IN
          /\ file' = w.file
          /\ hist' = [hist EXCEPT !.writeCalled = TRUE, !.writeErr = w.err,
                                  !.hasWritten = IF w.err THEN @ ELSE TRUE,
                                  !.written = IF w.err THEN @ ELSE cur]
          /\ IF w.err THEN Panic ELSE pc' = "exit" /\ UNCHANGED exitStatus
    /\ UNCHANGED <<config, dbIdx, cur, last, diff, published, log, call>>

\* loadCountCollections(config.CountPath)
Load ==
    /\ pc = "load"
    /\ LET loaded == loadCountCollections(file) IN
       /\ last' = loaded.countCollections
       /\ hist' = [hist EXCEPT !.loadCalled = TRUE]
       /\ IF afterLoad(loaded) = "panic" THEN Panic
          ELSE pc' = afterLoad(loaded) /\ UNCHANGED exitStatus
    /\ UNCHANGED <<config, dbIdx, file, cur, diff, published, log, call>>

\* the loop that fills diffCountCollections
Diff ==
    /\ pc = "diff"
    /\ diff' = diffCountCollectionsOf(cur, last)
    /\ hist' = [hist EXCEPT !.diffCalled = TRUE]
    /\ pc' = "publish"
    /\ UNCHANGED <<config, dbIdx, file, cur, last, published, log, exitStatus, call>>

\* putAWSCountCollectionMetrics(diffCountCollections, config.AwsConfig)
Publish ==
    /\ pc = "publish"
    /\ \E answers \in PublishAnswers(diff) :
          LET r == putAWSCountCollectionMetrics(diff, config.AwsConfig, answers) IN
          /\ published' = r.puts
          /\ log' = log \cup r.log \cup publishLogOf(r.err)
          /\ hist' = [hist EXCEPT !.publishCalled = TRUE, !.publishErr = r.err]
          /\ IF afterPublish(r.err) = "panic" THEN Panic
             ELSE pc' = afterPublish(r.err) /\ UNCHANGED exitStatus
    /\ UNCHANGED <<config, dbIdx, file, cur, last, diff, call>>

\* writeCountCollections(config.CountPath, curCountCollections) at the end of a run
\* that had a counts file
Save ==
    /\ pc = "save"
    /\ \E createFails \in BOOLEAN :
          LET w == writeCountCollections(file, cur, createFails) IN
          /\ file' = w.file
          /\ hist' = [hist EXCEPT !.writeCalled = TRUE, !.writeErr = w.err,
                                  !.hasWritten = IF w.err THEN @ ELSE TRUE,
                                  !.written = IF w.err THEN @ ELSE cur]
          /\ IF w.err THEN Panic ELSE pc' = "exit" /\ UNCHANGED exitStatus
    /\ UNCHANGED <<config, dbIdx, cur, last, diff, published, log, call>>

\* os.Exit(0)
Exit ==
    /\ pc = "exit"
    /\ pc' = "exited"
    /\ exitStatus' = 0
    /\ UNCHANGED <<config, dbIdx, file, cur, last, diff, published, log, hist, call>>

\* the scheduler starts the job again: a new process, the same counts file
NextRun ==
    /\ pc = "exited"
    /\ pc' = "start"
    /\ config' = NoConfig
    /\ dbIdx' = 1
    /\ cur' = EmptyMap
    /\ last' = EmptyMap
    /\ diff' = EmptyMap
    /\ published' = {}
    /\ log' = {}
    /\ exitStatus' = -1
    /\ hist' = [NoHist EXCEPT !.fileAtStart = file, !.hasWritten = hist.hasWritten,
                              !.written = hist.written]
    /\ UNCHANGED <<file, call>>

Next ==
    \/ LoadConfig
    \/ Collect
    \/ Stat
    \/ FirstRunWrite
    \/ Load
    \/ Diff
    \/ Publish
    \/ Save
    \/ Exit
    \/ NextRun

Spec == Init /\ [][Next]_vars

----------------------------------------------------------------------------
(***************************************************************************)
(* Function-level specifications: one call of one function on inputs drawn *)
(* from bounded sets, the run itself at rest.                              *)
(***************************************************************************)
RunIdle ==
    /\ pc = "idle"
    /\ config = NoConfig
    /\ dbIdx = 1
    /\ cur = EmptyMap
    /\ last = EmptyMap
    /\ diff = EmptyMap
    /\ published = {}
    /\ log = {}
    /\ exitStatus = -1
    /\ hist = NoHist

\* every map[string]int with keys among keys and values among values
CountMaps(keys, values) == UNION {[S -> values] : S \in SUBSET keys}

\* every countCollection over the tables a and b with counts up to MaxCount
DiffInputs ==
    [Increment : CountMaps({TblA, TblB}, Counts), Row : CountMaps({TblA, TblB}, Counts)]

NoCollection == [Increment |-> EmptyMap, Row |-> EmptyMap]

InitDiff ==
    /\ RunIdle
    /\ file = NoFile
    /\ \E minuend \in DiffInputs, subtrahend \in DiffInputs :
          call = [op |-> "difference", minuend |-> minuend, subtrahend |-> subtrahend,
                  done |-> FALSE, difference |-> NoCollection]

\* difference = getCountCollectionDifference(minuend, subtrahend)
CallDifference ==
    /\ call.op = "difference"
    /\ ~call.done
    /\ call' = [call EXCEPT !.done = TRUE,
                  !.difference = getCountCollectionDifference(call.minuend, call.subtrahend)]
    /\ UNCHANGED runVars

NextDiff == CallDifference

SpecDiff == InitDiff /\ [][NextDiff]_vars

\* table names of the counts files written and read back
StoreTables == {TblA, TblPct, TblLead, TblDbl}

\* counts written and read back: negative, zero, positive, more than one digit
StoreValues == ((0 - MaxCount)..MaxCount) \cup {10 * MaxCount + 2}

\* maps of at most one entry
StoreMaps == {m \in CountMaps(StoreTables, StoreValues) : Cardinality(DOMAIN m) <= 1}

\* collections of at most one database
StoreInputs ==
    UNION {[S -> [Increment : StoreMaps, Row : StoreMaps]] :
              S \in {{}, {NameM}, {NamePct}}}

InitStore ==
    /\ RunIdle
    /\ file \in {NoFile, GarbageFile}
    /\ \E c \in StoreInputs :
          call = [op |-> "store", countCollections |-> c, stage |-> "ready",
                  writeErr |-> FALSE, loaded |-> [err |-> FALSE, countCollections |-> EmptyMap]]

\* err = writeCountCollections(path, countCollections)
CallWrite ==
    /\ call.op = "store"
    /\ call.stage = "ready"
    /\ \E createFails \in BOOLEAN :
          LET w == writeCountCollections(file, call.countCollections, createFails) IN
          /\ file' = w.file
          /\ call' = [call EXCEPT !.stage = "written", !.writeErr = w.err]
    /\ UNCHANGED <<pc, config, dbIdx, cur, last, diff, published, log, exitStatus, hist>>

\* loaded, err = loadCountCollections(path)
CallLoad ==
    /\ call.op = "store"
    /\ call.stage = "written"
    /\ call' = [call EXCEPT !.stage = "loaded", !.loaded = loadCountCollections(file)]
    /\ UNCHANGED runVars

NextStore ==
    \/ CallWrite
    \/ CallLoad

SpecStore == InitStore /\ [][NextStore]_vars

\* database configurations handed to getCountCollection: every dialect the
\* config may name (none, the two supported ones, an unsupported one)
CollectInputs ==
    {[Name |-> NameM, Type |-> t, Database |-> <<"d", "b">>, Schema |-> s,
      Tables |-> [Increment |-> inc, Row |-> row]] :
        t \in {"", "mysql", "postgres", "oracle"},
        s \in {<<>>, <<"s">>},
        inc \in {<<>>, <<TblA>>, <<TblA, TblB>>},
        row \in {<<>>, <<TblA>>}}

NoResult == [countCollection |-> NoCollection, err |-> FALSE, log |-> {}, executed |-> {}]

InitCollect ==
    /\ RunIdle
    /\ file = NoFile
    /\ \E d \in CollectInputs :
          call = [op |-> "collect", dbConfig |-> d, done |-> FALSE, result |-> NoResult,
                  answers |-> CHOOSE a \in CollectAnswers(d) : TRUE]

\* countCollection, err = getCountCollection(dbConfig)
CallCollect ==
    /\ call.op = "collect"
    /\ ~call.done
    /\ \E answers \in CollectAnswers(call.dbConfig) :
          call' = [call EXCEPT !.done = TRUE, !.answers = answers,
                      !.result = getCountCollection(call.dbConfig, answers)]
    /\ UNCHANGED runVars

NextCollect == CallCollect

SpecCollect == InitCollect /\ [][NextCollect]_vars

\* differences handed to putAWSCountCollectionMetrics: up to two databases, up
\* to one increment table and one row table each, differences of either sign
PublishValues == (0 - MaxCount)..MaxCount

PublishInputs ==
    UNION {[S -> [Increment : {m \in CountMaps({TblA, TblB}, PublishValues) :
                                   Cardinality(DOMAIN m) <= 1},
                  Row       : CountMaps({TblA}, PublishValues)]] :
              S \in SUBSET {NameM, NameP}}

\* the "aws" sections a config may have: none, credentials, a namespace alone
PublishConfigs == {AwsNil, AwsExplicit, AwsNamespaceOnly}

NoPublishResult ==
    [err |-> FALSE, puts |-> {}, log |-> {}, credentials |-> credentialsOf(AwsNil)]

InitPublish ==
    /\ RunIdle
    /\ file = NoFile
    /\ \E c \in PublishInputs, a \in PublishConfigs :
          call = [op |-> "publish", countCollections |-> c, awsConfig |-> a, done |-> FALSE,
                  answers |-> [sessionFails |-> FALSE, ambientMissing |-> FALSE, failing |-> {}],
                  result |-> NoPublishResult]

\* err = putAWSCountCollectionMetrics(countCollections, awsConfig)
CallPublish ==
    /\ call.op = "publish"
    /\ ~call.done
    /\ \E answers \in PublishAnswers(call.countCollections) :
          call' = [call EXCEPT !.done = TRUE, !.answers = answers,
                      !.result = putAWSCountCollectionMetrics(call.countCollections,
                                                              call.awsConfig, answers)]
    /\ UNCHANGED runVars

NextPublish == CallPublish

SpecPublish == InitPublish /\ [][NextPublish]_vars

----------------------------------------------------------------------------
(***************************************************************************)
(* Properties.                                                             *)
(***************************************************************************)
DifferenceDone == call.op = "difference" /\ call.done

\* the difference of one map is the exact subtraction on every key both maps have
ExactOnShared(minCounts, subCounts, difference) ==
    \A k \in (DOMAIN minCounts) \cap (DOMAIN subCounts) :
        k \in DOMAIN difference /\ difference[k] = minCounts[k] - subCounts[k]

\* C1: for every pair of countCollections and every table present in both under
\* the same kind, getCountCollectionDifference reports exactly current - previous
\* for it, negative when the count went down, never clamped and never dropped.
C1_DeltaExact ==
    DifferenceDone =>
        /\ ExactOnShared(call.minuend.Increment, call.subtrahend.Increment, call.difference.Increment)
        /\ ExactOnShared(call.minuend.Row, call.subtrahend.Row, call.difference.Row)

\* a count that went down gives a negative difference
C1_Witness ==
    /\ DifferenceDone
    /\ TblA \in (DOMAIN call.minuend.Row) \cap (DOMAIN call.subtrahend.Row)
    /\ call.minuend.Row[TblA] < call.subtrahend.Row[TblA]
    /\ call.difference.Row[TblA] < 0

\* the difference of one map has every key of the minuend, and 0 on every key the
\* subtrahend lacks
ZeroOnNew(minCounts, subCounts, difference) ==
    /\ DOMAIN difference = DOMAIN minCounts
    /\ \A k \in (DOMAIN minCounts) \ (DOMAIN subCounts) : difference[k] = 0

\* C2: a table of the current countCollection that the previous one lacks under
\* the same kind is in the difference with the value 0, each kind looked up on its
\* own, and no table of the current countCollection is missing from the difference.
C2_NewKeyZero ==
    DifferenceDone =>
        /\ ZeroOnNew(call.minuend.Increment, call.subtrahend.Increment, call.difference.Increment)
        /\ ZeroOnNew(call.minuend.Row, call.subtrahend.Row, call.difference.Row)

\* a table the previous countCollection has as a row count only is new as an
\* increment count, and its positive count is reported as 0
C2_Witness ==
    /\ DifferenceDone
    /\ TblA \in DOMAIN call.minuend.Increment
    /\ call.minuend.Increment[TblA] > 0
    /\ TblA \notin DOMAIN call.subtrahend.Increment
    /\ TblA \in DOMAIN call.subtrahend.Row
    /\ call.difference.Increment[TblA] = 0

\* the counts file reads back as exactly these countCollections
FileHolds(f, countCollections) ==
    loadCountCollections(f) = [err |-> FALSE, countCollections |-> countCollections]

\* the run found no counts file and ended with status 0
FirstRunDone == pc = "exited" /\ exitStatus = 0 /\ hist.fileAtStart.state = "absent"

\* C3: a run that finds no counts file computes no difference and publishes no
\* metric, and ends with the counts file holding exactly the countCollections it
\* collected.
C3_FirstRun ==
    FirstRunDone =>
        /\ ~hist.diffCalled
        /\ ~hist.publishCalled
        /\ published = {}
        /\ FileHolds(file, cur)

\* the part of C3 that the code keeps: no difference, no publish, and the counts
\* file is what writeCountCollections makes of the collected countCollections
C3_NoDiffNoPublish ==
    FirstRunDone =>
        /\ ~hist.diffCalled
        /\ ~hist.publishCalled
        /\ published = {}
        /\ file = WrittenFile(hist.fileAtStart, cur)

\* the differences of one kind are current - previous on the tables both runs saw
DeltaOfRuns(curCounts, prevCounts, diffCounts) ==
    \A t \in (DOMAIN curCounts) \cap (DOMAIN prevCounts) :
        t \in DOMAIN diffCounts /\ diffCounts[t] = curCounts[t] - prevCounts[t]

\* C4: the counts file after a run holds exactly what that run collected, so in
\* the next run the loaded countCollections are the previous run's and the
\* difference of a table both runs saw is this run's count minus the previous one.
C4_FileIsLastRun ==
    (pc = "publish" /\ hist.hasWritten) =>
        /\ last = hist.written
        /\ \A id \in (DOMAIN cur) \cap (DOMAIN hist.written) :
              /\ id \in DOMAIN diff
              /\ DeltaOfRuns(cur[id].Increment, hist.written[id].Increment, diff[id].Increment)
              /\ DeltaOfRuns(cur[id].Row, hist.written[id].Row, diff[id].Row)

\* the part of C4 that the code keeps: nothing of the earlier file content is
\* merged in, the file is what writeCountCollections makes of the last write
C4_NoMerge ==
    hist.hasWritten => file = WrittenFile(NoFile, hist.written)

BadFileAtStart ==
    hist.fileAtStart.state # "absent" /\ loadCountCollections(hist.fileAtStart).err

\* C6: a counts file that exists and cannot be read or parsed is fatal to the run:
\* the run never takes the first-run branch, computes no difference, publishes
\* nothing and leaves the file as it found it.
C6_BadFileIsFatal ==
    BadFileAtStart =>
        /\ pc \notin {"firstwrite", "diff", "publish", "save", "exit"}
        /\ ~hist.diffCalled
        /\ ~hist.publishCalled
        /\ published = {}
        /\ ~hist.writeCalled
        /\ file = hist.fileAtStart
        /\ pc = "exited" => exitStatus = 2

\* a run that collected counts and then panicked on loading the counts file
C6_Witness ==
    /\ BadFileAtStart
    /\ pc = "exited"
    /\ hist.loadCalled
    /\ cur # EmptyMap
    /\ exitStatus = 2

\* C7: differences are computed for the databases that both this run and the
\* loaded countCollections have: a database new to this run is passed over (no
\* difference, no metric), and a database only the loaded countCollections have
\* gives no difference and no error.
C7_OnlySharedDatabases ==
    hist.diffCalled =>
        /\ DOMAIN diff = (DOMAIN cur) \cap (DOMAIN last)
        /\ \A put \in published : put.point.db \in (DOMAIN cur) \cap (DOMAIN last)
        /\ pc # "exited" \/ exitStatus = 0 \/ hist.writeErr

\* a run with a database the last run lacked, while the last run had one this
\* run lacks, ended well
C7_Witness ==
    /\ pc = "exited"
    /\ exitStatus = 0
    /\ hist.diffCalled
    /\ (DOMAIN cur) \ (DOMAIN last) # {}
    /\ (DOMAIN last) \ (DOMAIN cur) # {}

StoreDone == call.op = "store" /\ call.stage = "loaded" /\ ~call.writeErr

\* C8: writeCountCollections followed by loadCountCollections returns the
\* countCollections that were written: the same databases, the same tables under
\* each kind, the same counts.
C8_RoundTrip ==
    StoreDone => call.loaded = [err |-> FALSE, countCollections |-> call.countCollections]

\* whether a name holds a per cent sign
HasPercent(name) == \E i \in 1..Len(name) : name[i] = "%"

\* the round trip does hold for the collections none of whose names holds a per
\* cent sign
C8_RoundTripPlainNames ==
    (/\ StoreDone
     /\ \A id \in DOMAIN call.countCollections :
           /\ ~HasPercent(id)
           /\ \A t \in (DOMAIN call.countCollections[id].Increment)
                        \cup (DOMAIN call.countCollections[id].Row) : ~HasPercent(t))
    => call.loaded = [err |-> FALSE, countCollections |-> call.countCollections]

ConfiguredNames == {config.Databases[i].Name : i \in 1..Len(config.Databases)}

\* C9 as claimed: when the connection to one database fails, that database is left
\* out of the run's countCollections and every other configured database is still
\* collected.
C9_SkipFailedTarget ==
    (pc = "exited" /\ hist.openFailed # {}) =>
        /\ (DOMAIN cur) \cap hist.openFailed = {}
        /\ ConfiguredNames \ hist.openFailed \subseteq DOMAIN cur

\* C9 as the code has it: an error of getCountCollection for one database is fatal
\* to the run.  The run panics at that database: the databases after it are not
\* collected, nothing is loaded, diffed, published or written, and the counts file
\* is as the run found it.
C9_FailedTargetIsFatal ==
    hist.openFailed # {} =>
        /\ pc = "exited"
        /\ exitStatus = 2
        /\ hist.openFailed = {config.Databases[dbIdx].Name}
        /\ DOMAIN cur = {config.Databases[i].Name : i \in 1..(dbIdx - 1)}
        /\ ~hist.loadCalled
        /\ ~hist.diffCalled
        /\ ~hist.publishCalled
        /\ ~hist.writeCalled
        /\ published = {}
        /\ file = hist.fileAtStart

\* the first of two databases failed: the second was never collected
C9_Witness ==
    /\ pc = "exited"
    /\ hist.openFailed = {NameM}
    /\ Len(config.Databases) = 2
    /\ cur = EmptyMap
    /\ exitStatus = 2

CollectDone == call.op = "collect" /\ call.done /\ ~call.result.err

\* C10: for a PostgreSQL database the increment query and the row query are the
\* same statistics query with $n bindvars, and whenever increment tables are
\* asked for a WARNING is logged.
C10_PostgresSameQueryAndWarning ==
    (CollectDone /\ call.dbConfig.Type = "postgres") =>
        /\ \A q \in call.result.executed : q.sql = PgStatQuery /\ q.bindvar = "DOLLAR"
        /\ Len(call.dbConfig.Tables.Increment) > 0 =>
              \E l \in call.result.log : l.level \in {"WARN", "WARNING"}

\* the part of C10 that the code keeps: every query run against a PostgreSQL
\* database is the statistics query with $n bindvars, one per requested kind
C10_PostgresSameQuery ==
    (CollectDone /\ call.dbConfig.Type = "postgres") =>
        /\ \A q \in call.result.executed : q.sql = PgStatQuery /\ q.bindvar = "DOLLAR"
        /\ Len(call.dbConfig.Tables.Increment) > 0 =>
              sqlxRebindDollar(sqlxIn(PgStatQuery, call.dbConfig.Tables.Increment,
                                      dbSchemaOf(call.dbConfig))) \in call.result.executed
        /\ Len(call.dbConfig.Tables.Row) > 0 =>
              sqlxRebindDollar(sqlxIn(PgStatQuery, call.dbConfig.Tables.Row,
                                      dbSchemaOf(call.dbConfig))) \in call.result.executed

\* a call of putAWSCountCollectionMetrics that got past the credentials test
PublishDone ==
    /\ call.op = "publish"
    /\ call.done
    /\ ~call.answers.sessionFails
    /\ ~credentialsGetFails(call.result.credentials, call.answers.ambientMissing)

\* C11: once the credentials are validated, exactly one put is attempted for every
\* (identifier, tableName) entry of every Delta, in both counter kinds, carrying
\* the entry's value and tagged with the identifier; no other put is attempted; a
\* put that fails is logged (WARN for an increment, ERROR for a row), the
\* remaining puts are still attempted, and the call returns no error.
C11_OnePutPerEntry ==
    PublishDone =>
        /\ \A id \in DOMAIN call.countCollections : \A kind \in {"Increment", "Row"} :
              \A t \in DOMAIN call.countCollections[id][kind] :
                 Cardinality({put \in call.result.puts :
                                 /\ put.point.db = id
                                 /\ put.point.kind = kind
                                 /\ put.point.name = t}) = 1
        /\ \A put \in call.result.puts :
              /\ put.point.db \in DOMAIN call.countCollections
              /\ put.point.name \in DOMAIN call.countCollections[put.point.db][put.point.kind]
              /\ put.point.value = call.countCollections[put.point.db][put.point.kind][put.point.name]
              /\ put.ok = (put.point \notin call.answers.failing)
              /\ ~put.ok =>
                    \E l \in call.result.log :
                       /\ l.db = put.point.db
                       /\ l.msg = "Failed to push Cloudwatch metric"
                       /\ l.level = IF put.point.kind = "Increment" THEN "WARN" ELSE "ERROR"
        /\ ~call.result.err

\* a call in which the put of one point failed and the put of another point, of
\* the other kind and of another database, was made and went through
C11_Witness ==
    /\ PublishDone
    /\ ~call.result.err
    /\ \E bad \in call.result.puts, good \in call.result.puts :
          /\ ~bad.ok
          /\ good.ok
          /\ bad.point.db # good.point.db
          /\ bad.point.kind # good.point.kind
          /\ bad.point.value < 0

\* a call of getCountCollection whose query of the given kind returned rows
RowsScanned(kind) ==
    /\ call.op = "collect"
    /\ call.done
    /\ ~sqlOpenFails(call.dbConfig, call.answers.dsnRejected)
    /\ IF kind = "Increment"
       THEN queryRuns(incrementQueryOf(call.dbConfig)) /\ ~call.answers.increment.err
       ELSE queryRuns(rowQueryOf(call.dbConfig)) /\ ~call.answers.row.err

RowsOf(kind) == IF kind = "Increment" THEN call.answers.increment.rows ELSE call.answers.row.rows

\* C12: a row whose scan fails is skipped and logged without ending the scan:
\* every row of the same result set that scans is in the Snapshot under its table
\* name with its count, the failed row has no entry there (not even a zero), an
\* ERROR is logged for it, and getCountCollection returns without error.
C12_ScanFailureSkipsRow ==
    \A kind \in {"Increment", "Row"} :
        RowsScanned(kind) =>
            /\ \A r \in RowsOf(kind) :
                  IF r.scans
                  THEN /\ r.name \in DOMAIN call.result.countCollection[kind]
                       /\ call.result.countCollection[kind][r.name] = r.value
                  ELSE /\ r.name \notin DOMAIN call.result.countCollection[kind]
                       /\ \E l \in call.result.log :
                             /\ l.level = "ERROR"
                             /\ l.msg = "Failed to obtain values"
                             /\ l.db = call.dbConfig.Name
            /\ DOMAIN call.result.countCollection[kind] \subseteq {r.name : r \in RowsOf(kind)}
            /\ ~call.result.err

\* a result set with a row that fails to scan and a row that scans: the Snapshot
\* holds the second and not the first
C12_Witness ==
    /\ RowsScanned("Increment")
    /\ \E bad \in RowsOf("Increment"), good \in RowsOf("Increment") :
          /\ ~bad.scans
          /\ good.scans
          /\ good.value > 0
          /\ DOMAIN call.result.countCollection.Increment = {good.name}
    /\ ~call.result.err

\* the "aws" section names credentials: both accessKeyId and secretAccessKey
ExplicitCredentials(awsConfig) ==
    ~awsConfig.isNil /\ awsConfig.accessKeyId # "" /\ awsConfig.secretAccessKey # ""

\* C13: the credentials are resolved explicit-config-first with ambient fallback:
\* a configuration that names credentials has the session opened with them, and
\* a configuration that names none, whether or not it has other "aws" settings
\* such as the namespace, has it opened with the default provider chain and not
\* with empty static credentials.
C13_AmbientUnlessExplicit ==
    (call.op = "publish" /\ call.done) =>
        IF ExplicitCredentials(call.awsConfig)
        THEN /\ call.result.credentials.provider = "static"
             /\ call.result.credentials.accessKeyId = call.awsConfig.accessKeyId
             /\ call.result.credentials.secretAccessKey = call.awsConfig.secretAccessKey
        ELSE call.result.credentials.provider = "default-chain"

\* what the code keeps of C13: the default chain is used exactly when the
\* configuration has no "aws" section at all, and an "aws" section without
\* credentials makes the call fail on the credentials test before any put
C13_AmbientOnlyWithoutSection ==
    (call.op = "publish" /\ call.done) =>
        /\ (call.result.credentials.provider = "default-chain") = call.awsConfig.isNil
        /\ (~call.awsConfig.isNil /\ ~ExplicitCredentials(call.awsConfig)) =>
              call.result.err /\ call.result.puts = {}

\* C14: for a database whose type is neither "mysql" nor "postgres" and not
\* empty, getCountCollection falls back to the MySQL queries: it returns no
\* error, and the increment query and the row query against the MySQL catalog
\* are run for the tables asked for.
C14_UnknownTypeRunsMysqlQueries ==
    (/\ call.op = "collect"
     /\ call.done
     /\ call.dbConfig.Type \notin {"", "mysql", "postgres"}
     /\ ~call.answers.dsnRejected) =>
        /\ ~call.result.err
        /\ Len(call.dbConfig.Tables.Increment) > 0 =>
              sqlxIn(MysqlIncrementQuery, call.dbConfig.Tables.Increment,
                     dbSchemaOf(call.dbConfig)) \in call.result.executed
        /\ Len(call.dbConfig.Tables.Row) > 0 =>
              sqlxIn(MysqlRowQuery, call.dbConfig.Tables.Row,
                     dbSchemaOf(call.dbConfig)) \in call.result.executed

\* what the code keeps of C14: the MySQL queries are what a database with an
\* empty type gets, and a database of an unregistered type fails at sql.Open
\* with no query run
C14_UnknownTypeFailsToOpen ==
    (call.op = "collect" /\ call.done /\ ~call.answers.dsnRejected) =>
        /\ call.dbConfig.Type \notin {"", "mysql", "postgres"} =>
              call.result.err /\ call.result.executed = {}
        /\ call.dbConfig.Type = "" =>
              /\ ~call.result.err
              /\ Len(call.dbConfig.Tables.Increment) > 0 =>
                    sqlxIn(MysqlIncrementQuery, call.dbConfig.Tables.Increment,
                           dbSchemaOf(call.dbConfig)) \in call.result.executed
              /\ Len(call.dbConfig.Tables.Row) > 0 =>
                    sqlxIn(MysqlRowQuery, call.dbConfig.Tables.Row,
                           dbSchemaOf(call.dbConfig)) \in call.result.executed

====
